---- MODULE Spec2Model ----
(***************************************************************************)
(* A model of the ab_utils hypothesis-testing library:                     *)
(*   bootstrap.py      permutation_test_pvalue                             *)
(*   binomial_test.py  binomial_p_value, binomial_p_value_manual           *)
(*   t_test.py         welch_t_stat, welch_p_value_manual, welch_p_value   *)
(*   z_test.py         ztest_prop_stat, ztest_prop_p_value_manual          *)
(*                                                                         *)
(* Numbers are exact rationals <<num, den>> in lowest terms with den > 0;  *)
(* the floating-point NaN is the pair <<0, 0>>.  Samples hold small        *)
(* integers, so every mean, variance and fraction is exact.                *)
(***************************************************************************)
EXTENDS Integers, Sequences, FiniteSets, Bags, TLC

VARIABLES
    \* permutation engine (bootstrap.py)
    xs, ys,          \* the two samples the callers hold
    metric_func,     \* the metric every call is given
    alternative,     \* the alternative every call is given
    reps,            \* the repetition count every call is given
    call,            \* per calling thread: the frame of permutation_test_pvalue
    rng,             \* the generator objects, indexed by the slot a call uses
    \* binomial test (binomial_test.py)
    bin,
    \* Welch t-test (t_test.py)
    welch,
    \* z-test for proportions (z_test.py)
    zt

vars == <<xs, ys, metric_func, alternative, reps, call, rng, bin, welch, zt>>

----------------------------------------------------------------------------
(* Bounds of the model *)

\* longest pooled sample (len(x) + len(y)) of the permutation engine
MaxPool == 3
\* largest repetition count
MaxReps == 2

\* values an observation may take
Values == {0, 1}

Alternatives == {"two-sided", "greater", "less"}

----------------------------------------------------------------------------
(* Exact arithmetic standing for float64 *)

NaN == <<0, 0>>

IsNaN(a) == a[2] = 0

Abs(n) == IF n < 0 THEN -n ELSE n

RECURSIVE GCD(_, _)
GCD(a, b) == IF b = 0 THEN a ELSE GCD(b, a % b)

\* n / d as a float division: x / 0 is NaN here (only 0 / 0 arises)
R(n, d) ==
    IF d = 0 THEN NaN
    ELSE LET g == GCD(Abs(n), Abs(d))
             s == IF d < 0 THEN -1 ELSE 1
         IN  <<(s * n) \div g, (s * d) \div g>>

RSub(a, b) ==
    IF IsNaN(a) \/ IsNaN(b) THEN NaN
    ELSE R(a[1] * b[2] - b[1] * a[2], a[2] * b[2])

RAdd(a, b) ==
    IF IsNaN(a) \/ IsNaN(b) THEN NaN
    ELSE R(a[1] * b[2] + b[1] * a[2], a[2] * b[2])

RMul(a, b) ==
    IF IsNaN(a) \/ IsNaN(b) THEN NaN
    ELSE R(a[1] * b[1], a[2] * b[2])

\* a / b; 0 / 0 is NaN
RDiv(a, b) ==
    IF IsNaN(a) \/ IsNaN(b) THEN NaN
    ELSE R(a[1] * b[2], a[2] * b[1])

RNeg(a) == IF IsNaN(a) THEN NaN ELSE <<-a[1], a[2]>>

RAbs(a) == IF IsNaN(a) THEN NaN ELSE <<Abs(a[1]), a[2]>>

\* comparisons with NaN are False
RGe(a, b) == ~IsNaN(a) /\ ~IsNaN(b) /\ a[1] * b[2] >= b[1] * a[2]

RLe(a, b) == ~IsNaN(a) /\ ~IsNaN(b) /\ a[1] * b[2] <= b[1] * a[2]

RGt(a, b) == ~IsNaN(a) /\ ~IsNaN(b) /\ a[1] * b[2] > b[1] * a[2]

RECURSIVE SumSeq(_)
SumSeq(s) == IF s = <<>> THEN 0 ELSE Head(s) + SumSeq(Tail(s))

RECURSIVE BagOf(_)
BagOf(s) == IF s = <<>> THEN EmptyBag ELSE BagOf(Tail(s)) (+) SetToBag({Head(s)})

\* all sequences over S of length at most n
SeqsUpTo(S, n) == UNION {[1..k -> S] : k \in 0..n}

----------------------------------------------------------------------------
(* bootstrap.py: permutation_test_pvalue *)

Threads == {1, 2}

\* which of the caller's samples a call passes as (x, y)
Orders == {"xy", "yx", "xx"}

ArgX(o) == IF o = "yx" THEN ys ELSE xs
ArgY(o) == IF o = "xy" THEN ys ELSE xs

\* np.mean (NaN on an empty array) and np.sum (0 on an empty array)
Metrics == {"mean", "sum"}

Metric(f, s) ==
    IF f = "mean" THEN R(SumSeq(s), Len(s)) ELSE R(SumSeq(s), 1)

\* the seed of np.random.default_rng(42)
Seed == 42

\* One step of the bit generator and its output.  PCG64 is stood for by a
\* small multiplicative congruential generator: like PCG64, the output is a
\* function of the generator's state alone, and each draw advances the state.
RngStep(s) == (s * 171) % 30269

RECURSIVE MaskFrom(_, _)
MaskFrom(mask, max) == IF mask >= max THEN mask ELSE MaskFrom(2 * mask + 1, max)

\* the smallest bit mask 2^k - 1 >= max
Mask(max) == MaskFrom(0, max)

RECURSIVE Interval(_, _)
\* random_interval(max): masked outputs are drawn until one is <= max
Interval(s, max) ==
    LET s1 == RngStep(s)
        v  == s1 % (Mask(max) + 1)
    IN  IF v <= max THEN [val |-> v, rng |-> s1] ELSE Interval(s1, max)

\* a shuffle step that overwrites instead of swapping (draws with replacement)
SwapResample(arr, i, j) == [arr EXCEPT ![i] = arr[j]]

Swap(arr, i, j) == [arr EXCEPT ![i] = arr[j], ![j] = arr[i]]

RECURSIVE ShuffleFrom(_, _, _)
\* Generator.shuffle: for i in reversed(range(1, n)): j = draw(0..i); swap
\* (i is the 0-based index; sequences here are 1-based)
ShuffleFrom(arr, s, i) ==
    IF i < 1 THEN [arr |-> arr, rng |-> s]
    ELSE LET d == Interval(s, i)
         IN  ShuffleFrom(Swap(arr, i + 1, d.val + 1), d.rng, i - 1)

Shuffle(arr, s) == ShuffleFrom(arr, s, Len(arr) - 1)

\* a generator object shared by every call
RngSlotShared(c) == 1

\* the generator object call c uses: its own, made at line 66
RngSlot(c) == c

\* T_obs with the operands added instead of subtracted
ObservedSum(f, x, y) == RAdd(Metric(f, x), Metric(f, y))

\* line 59
Observed(f, x, y) == RSub(Metric(f, x), Metric(f, y))

\* counts a permutation only when strictly more extreme
ExtremeStrict(alt, t, tobs) ==
    IF alt = "two-sided" THEN RGt(RAbs(t), RAbs(tobs))
    ELSE IF alt = "greater" THEN RGt(t, tobs)
    ELSE RGt(tobs, t)

\* lines 79-84: the comparison applied to each trace element
Extreme(alt, t, tobs) ==
    IF alt = "two-sided" THEN RGe(RAbs(t), RAbs(tobs))
    ELSE IF alt = "greater" THEN RGe(t, tobs)
    ELSE RLe(t, tobs)

\* np.mean of the boolean array: NaN when the trace is empty
PValue(alt, T_stats, tobs) ==
    R(Cardinality({k \in 1..Len(T_stats) : Extreme(alt, T_stats[k], tobs)}),
      Len(T_stats))

IdleCall ==
    [pc |-> "idle", order |-> "xy", x |-> <<>>, y |-> <<>>,
     T_obs |-> NaN, pooled |-> <<>>, n_x |-> 0, i |-> 0,
     x_ |-> <<>>, y_ |-> <<>>, T_stats |-> <<>>, p |-> NaN]

\* lines 55-69: the call's prologue
Start(c) ==
    /\ call[c].pc = "idle"
    /\ \E o \in Orders :
         LET x == ArgX(o)
             y == ArgY(o)
         IN  /\ call' = [call EXCEPT ![c] =
                   [IdleCall EXCEPT !.pc = "loop", !.order = o,
                                    !.x = x, !.y = y,
                                    !.T_obs = Observed(metric_func, x, y),
                                    !.pooled = x \o y, !.n_x = Len(x)]]
             /\ rng' = [rng EXCEPT ![RngSlot(c)] = Seed]
    /\ UNCHANGED <<xs, ys, metric_func, alternative, reps, bin, welch, zt>>

\* lines 72-76: one iteration of the loop
Iterate(c) ==
    /\ call[c].pc = "loop"
    /\ call[c].i < reps
    /\ LET f  == call[c]
           sh == Shuffle(f.pooled, rng[RngSlot(c)])
           x_ == SubSeq(sh.arr, 1, f.n_x)
           y_ == SubSeq(sh.arr, f.n_x + 1, Len(sh.arr))
       IN  /\ call' = [call EXCEPT ![c] =
                 [f EXCEPT !.pooled = sh.arr, !.x_ = x_, !.y_ = y_,
                           !.i = f.i + 1,
                           !.T_stats = Append(f.T_stats,
                               RSub(Metric(metric_func, x_),
                                    Metric(metric_func, y_)))]]
           /\ rng' = [rng EXCEPT ![RngSlot(c)] = sh.rng]
    /\ UNCHANGED <<xs, ys, metric_func, alternative, reps, bin, welch, zt>>

\* lines 79-86: the p-value and the return
Finish(c) ==
    /\ call[c].pc = "loop"
    /\ call[c].i = reps
    /\ call' = [call EXCEPT ![c] =
          [call[c] EXCEPT !.pc = "done",
                          !.p = PValue(alternative, call[c].T_stats,
                                       call[c].T_obs)]]
    /\ UNCHANGED <<xs, ys, metric_func, alternative, reps, rng, bin, welch, zt>>

Idle == "none"

InitPerm ==
    /\ xs \in SeqsUpTo(Values, MaxPool)
    /\ ys \in SeqsUpTo(Values, MaxPool)
    /\ Len(xs) + Len(ys) <= MaxPool
    /\ metric_func \in Metrics
    /\ alternative \in Alternatives
    /\ reps \in 0..MaxReps
    /\ call = [c \in Threads |-> IdleCall]
    /\ rng = [c \in Threads |-> 0]
    /\ bin = Idle
    /\ welch = Idle
    /\ zt = Idle

NextPerm == \E c \in Threads : Start(c) \/ Iterate(c) \/ Finish(c)

SpecPerm == InitPerm /\ [][NextPerm]_vars

----------------------------------------------------------------------------
(* Claims about permutation_test_pvalue, checked under SpecPerm *)

Started(c) == call[c].pc # "idle"
Done(c) == call[c].pc = "done"

SameArgs(c, d) == call[c].x = call[d].x /\ call[c].y = call[d].y

Min(a, b) == IF a <= b THEN a ELSE b

\* C1: two calls with identical arguments (metric, reps and alternative are
\* the same for every call here), however interleaved with each other, hold
\* the same T_obs and the same trace element for element at every point, and
\* so return the same T_obs and the same trace.
C1_Deterministic ==
    \A c \in Threads, d \in Threads :
        (Started(c) /\ Started(d) /\ SameArgs(c, d)) =>
            /\ call[c].T_obs = call[d].T_obs
            /\ \A k \in 1..Min(Len(call[c].T_stats), Len(call[d].T_stats)) :
                   call[c].T_stats[k] = call[d].T_stats[k]
            /\ (Done(c) /\ Done(d)) => call[c].T_stats = call[d].T_stats

\* two finished calls with the same arguments whose trace shows the shuffles
\* at work (two different elements)
C1_Witness ==
    /\ Done(1) /\ Done(2) /\ SameArgs(1, 2)
    /\ Len(call[1].x) >= 1 /\ Len(call[1].y) >= 1
    /\ Len(call[1].T_stats) >= 2
    /\ call[1].T_stats[1] # call[1].T_stats[2]
    /\ call[1].T_stats = call[2].T_stats

\* C2: after every shuffle iteration the pooled sequence holds the multiset
\* of x and y, and the two segments have lengths len(x) and len(y) and
\* together are the pooled sequence.
C2_MultisetPreserved ==
    \A c \in Threads :
        Started(c) =>
            /\ BagOf(call[c].pooled) = BagOf(call[c].x \o call[c].y)
            /\ call[c].i >= 1 =>
                  /\ Len(call[c].x_) = Len(call[c].x)
                  /\ Len(call[c].y_) = Len(call[c].y)
                  /\ call[c].x_ \o call[c].y_ = call[c].pooled

\* an iteration has run and left the pooled sequence in another order
C2_Witness ==
    \E c \in Threads :
        /\ call[c].i >= 1
        /\ Len(call[c].x) >= 1 /\ Len(call[c].y) >= 2
        /\ call[c].pooled # call[c].x \o call[c].y

Swapped(c, d) ==
    /\ Done(c) /\ Done(d)
    /\ call[c].order = "xy" /\ call[d].order = "yx"
    /\ xs # <<>> /\ ys # <<>>

Degenerate(c) == call[c].x = <<>> \/ call[c].y = <<>> \/ reps < 1

\* C4: a call with an empty x, an empty y or reps < 1 returns no result
\* tuple (it fails instead), and no call returns a NaN p-value or T_obs.
C4_RejectsDegenerate ==
    \A c \in Threads :
        /\ (Started(c) /\ Degenerate(c)) => ~Done(c)
        /\ Done(c) => (~IsNaN(call[c].p) /\ ~IsNaN(call[c].T_obs))

\* C10: a two-sided call with reps >= 1 whose T_obs is 0 returns p = 1, and
\* a call on (x, x) with x non-empty and the mean metric has T_obs = 0.
C10_ZeroTobsGivesOne ==
    \A c \in Threads :
        /\ (Done(c) /\ alternative = "two-sided" /\ reps >= 1
                /\ call[c].T_obs = <<0, 1>>) => call[c].p = <<1, 1>>
        /\ (Started(c) /\ call[c].order = "xx" /\ call[c].x # <<>>
                /\ metric_func = "mean") => call[c].T_obs = <<0, 1>>

\* a finished two-sided call on (x, x), x holding two different values,
\* whose trace has a non-zero element
C10_Witness ==
    \E c \in Threads :
        /\ Done(c) /\ call[c].order = "xx" /\ metric_func = "mean"
        /\ alternative = "two-sided" /\ reps >= 1
        /\ \E a \in 1..Len(call[c].x) : call[c].x[a] # call[c].x[1]
        /\ \E k \in 1..Len(call[c].T_stats) : call[c].T_stats[k] # <<0, 1>>
        /\ call[c].T_obs = <<0, 1>>
        /\ call[c].p = <<1, 1>>

----------------------------------------------------------------------------
(* binomial_test.py: binomial_p_value and binomial_p_value_manual *)

\* largest trial count
MaxN == 3

\* p0 as a fraction <<a, b>>: inside (0,1), on its border, outside it, and
\* just below one half
NearHalf == <<20000000, 40000001>>
Probs == {<<1, 2>>, <<1, 3>>, <<2, 3>>, NearHalf,
          <<0, 1>>, <<1, 1>>, <<-1, 2>>, <<3, 2>>}

RECURSIVE Pow(_, _)
Pow(b, e) == IF e = 0 THEN 1 ELSE b * Pow(b, e - 1)

RECURSIVE Choose(_, _)
Choose(n, i) ==
    IF i < 0 \/ i > n THEN 0
    ELSE IF i = 0 THEN 1
    ELSE (Choose(n, i - 1) * (n - i + 1)) \div i

\* the distribution's argument check: n >= 0 and 0 <= p <= 1
ArgCheck(n, p0) == n >= 0 /\ p0[1] >= 0 /\ p0[1] <= p0[2]

\* st.binom.pmf(i, n, p0) as an integer weight over the denominator b^n;
\* 0 outside the support
Pmf(i, n, p0) ==
    IF i < 0 \/ i > n THEN 0
    ELSE Choose(n, i) * Pow(p0[1], i) * Pow(p0[2] - p0[1], n - i)

Denom(n, p0) == Pow(p0[2], n)

RECURSIVE SumPmf(_, _, _, _)
\* the sum of Pmf over lo..hi
SumPmf(lo, hi, n, p0) ==
    IF lo > hi THEN 0 ELSE Pmf(lo, n, p0) + SumPmf(lo + 1, hi, n, p0)

\* st.binom.cdf(k, n, p0) = P(X <= k) and st.binom.sf(k, n, p0) = P(X > k)
Cdf(k, n, p0) == SumPmf(0, Min(k, n), n, p0)
Sf(k, n, p0) == SumPmf(IF k < 0 THEN 0 ELSE k + 1, n, n, p0)

\* the denominator of the relative tolerance of binomtest: rerr = 1 + 1e-7
RerrDen == 10000000

\* the sign of w - d * rerr for integer weights w and d
CmpRerr(w, d) ==
    LET diff == w - d
    IN  IF diff <= 0 THEN (IF d = 0 /\ diff = 0 THEN 0 ELSE -1)
        ELSE IF diff < d \div RerrDen THEN -1
        ELSE IF diff = d \div RerrDen /\ d % RerrDen = 0 THEN 0
        ELSE IF diff = d \div RerrDen THEN -1
        ELSE 1

RECURSIVE BinarySearch(_, _, _, _, _, _)
\* _binary_search_for_binom_tst(a, d * rerr, lo, hi) with a = pmf, or, when
\* neg, with a = -pmf and the target -d * rerr
BinarySearch(neg, d, lo, hi, n, p0) ==
    LET sgn(i) == (IF neg THEN -1 ELSE 1) * CmpRerr(Pmf(i, n, p0), d)
    IN  IF lo < hi
        THEN LET mid == lo + (hi - lo) \div 2
             IN  IF sgn(mid) < 0 THEN BinarySearch(neg, d, mid + 1, hi, n, p0)
                 ELSE IF sgn(mid) > 0 THEN BinarySearch(neg, d, lo, mid - 1, n, p0)
                 ELSE mid
        ELSE IF sgn(lo) <= 0 THEN lo ELSE lo - 1

\* the two-sided p-value of st.binomtest, as a weight (capped at 1)
ReferenceTwoSided(k, n, p0) ==
    LET d  == Pmf(k, n, p0)
        pn == p0[1] * n
        b  == p0[2]
    IN  IF k * b = pn THEN Denom(n, p0)
        ELSE IF k * b < pn
        THEN LET ix == BinarySearch(TRUE, d, (pn + b - 1) \div b, n, n, p0)
                 y  == n - ix + (IF CmpRerr(Pmf(ix, n, p0), d) = 0 THEN 1 ELSE 0)
             IN  Min(Denom(n, p0), Cdf(k, n, p0) + Sf(n - y, n, p0))
        ELSE LET ix == BinarySearch(FALSE, d, 0, pn \div b, n, p0)
                 y  == ix + 1
             IN  Min(Denom(n, p0), Cdf(y - 1, n, p0) + Sf(k - 1, n, p0))

Raised == [st |-> "error", p |-> NaN]
Value(w, den) == [st |-> "ok", p |-> <<w, den>>]
NaNValue == [st |-> "ok", p |-> NaN]

\* lines 24-25: st.binomtest(k, n, p0, alternative).pvalue; binomtest
\* raises ValueError for k < 0, k > n, or p0 outside [0, 1]
ReferencePValue(k, n, p0, alt) ==
    IF k < 0 \/ k > n \/ ~ArgCheck(n, p0) THEN Raised
    ELSE IF alt = "less" THEN Value(Cdf(k, n, p0), Denom(n, p0))
    ELSE IF alt = "greater" THEN Value(Sf(k - 1, n, p0), Denom(n, p0))
    ELSE Value(ReferenceTwoSided(k, n, p0), Denom(n, p0))

\* lines 61-63: probs[probs <= p_obs].sum()
ManualTwoSided(k, n, p0) ==
    LET sel == {i \in 0..n : Pmf(i, n, p0) <= Pmf(k, n, p0)}
        RECURSIVE Sum(_)
        Sum(S) == IF S = {} THEN 0
                  ELSE LET i == CHOOSE j \in S : TRUE
                       IN  Pmf(i, n, p0) + Sum(S \ {i})
    IN  Sum(sel)

\* lines 49-65; a failed argument check makes pmf, cdf and sf NaN, and an
\* all-False selection sums to 0.0
ManualPValue(k, n, p0, alt) ==
    IF ~ArgCheck(n, p0)
    THEN (IF alt \in {"less", "greater"} THEN NaNValue ELSE Value(0, 1))
    ELSE IF alt = "less" THEN Value(Cdf(k, n, p0), Denom(n, p0))
    ELSE IF alt = "greater" THEN Value(Sf(k - 1, n, p0), Denom(n, p0))
    ELSE Value(ManualTwoSided(k, n, p0), Denom(n, p0))

Pending == [st |-> "pending", p |-> NaN]

\* the caller runs binomial_p_value
BinomialPValue ==
    /\ bin.ref.st = "pending"
    /\ bin' = [bin EXCEPT !.ref = ReferencePValue(bin.k, bin.n, bin.p0, bin.alt)]
    /\ UNCHANGED <<xs, ys, metric_func, alternative, reps, call, rng, welch, zt>>

\* the caller runs binomial_p_value_manual
BinomialPValueManual ==
    /\ bin.man.st = "pending"
    /\ bin' = [bin EXCEPT !.man = ManualPValue(bin.k, bin.n, bin.p0, bin.alt)]
    /\ UNCHANGED <<xs, ys, metric_func, alternative, reps, call, rng, welch, zt>>

NoPerm ==
    /\ xs = <<>> /\ ys = <<>>
    /\ metric_func = "mean" /\ alternative = "two-sided" /\ reps = 0
    /\ call = [c \in Threads |-> IdleCall]
    /\ rng = [c \in Threads |-> 0]

\* the weights of the outcomes are kept within 32-bit integers: the
\* eight-digit fraction is paired with n = 1 only
InitBinom ==
    /\ NoPerm
    /\ \E k \in -1..(MaxN + 1), n \in 1..MaxN, p0 \in Probs, alt \in Alternatives :
          /\ p0 = NearHalf => n = 1
          /\ bin = [k |-> k, n |-> n, p0 |-> p0, alt |-> alt,
                    ref |-> Pending, man |-> Pending]
    /\ welch = Idle
    /\ zt = Idle

NextBinom == BinomialPValue \/ BinomialPValueManual

SpecBinom == InitBinom /\ [][NextBinom]_vars

ValidBinom == 
    /\ 0 <= bin.k /\ bin.k <= bin.n /\ bin.n >= 1
    /\ 0 < bin.p0[1] /\ bin.p0[1] < bin.p0[2]

BothRun == bin.ref.st # "pending" /\ bin.man.st # "pending"

\* |p - q| <= 1e-9 for two p-values over the same denominator
Within1e9(p, q) ==
    /\ ~IsNaN(p) /\ ~IsNaN(q) /\ p[2] = q[2]
    /\ Abs(p[1] - q[1]) <= p[2] \div 1000000000

\* C5: for valid (k, n, p0) and each alternative the manual p-value agrees
\* with the reference p-value within 1e-9.
C5_ManualAgreesWithReference ==
    (BothRun /\ ValidBinom) =>
        /\ bin.ref.st = "ok" /\ bin.man.st = "ok"
        /\ Within1e9(bin.ref.p, bin.man.p)

InvalidBinom ==
    \/ bin.p0[1] <= 0 \/ bin.p0[1] >= bin.p0[2]
    \/ bin.k < 0 \/ bin.k > bin.n

\* C6: both entry points fail, and return no p-value, when p0 is outside
\* (0,1) or k is outside [0,n].
C6_InvalidArgsRejected ==
    InvalidBinom =>
        /\ bin.ref.st # "pending" => bin.ref.st = "error"
        /\ bin.man.st # "pending" => bin.man.st = "error"

----------------------------------------------------------------------------
(* t_test.py: welch_t_stat, welch_p_value_manual, welch_p_value *)

\* longest sample of the Welch test
MaxLenW == 3

WelchValues == {0, 1, 2}

WelchSamples == SeqsUpTo(WelchValues, MaxLenW) \ {<<>>}

Mean(s) == R(SumSeq(s), Len(s))

RECURSIVE SumSq(_)
SumSq(s) == IF s = <<>> THEN 0 ELSE Head(s) * Head(s) + SumSq(Tail(s))

\* x.var(ddof = 1): sum((x - mean)^2) / (n - 1), NaN for n = 1
Var(s) ==
    LET n == Len(s)
    IN  R(n * SumSq(s) - SumSeq(s) * SumSeq(s), n * (n - 1))

Whole(n) == <<n, 1>>

Sign(a) == IF a[1] > 0 THEN 1 ELSE IF a[1] < 0 THEN -1 ELSE 0

NaNStat == [k |-> "nan", sgn |-> 0, sq |-> NaN]

\* diff / sqrt(se2), kept as its sign and its square: NaN for 0 / 0 and for
\* the root of a negative number, infinite for a non-zero diff over 0
Ratio(diff, se2) ==
    IF IsNaN(diff) \/ IsNaN(se2) \/ se2[1] < 0 THEN NaNStat
    ELSE IF se2[1] = 0
    THEN (IF diff[1] = 0 THEN NaNStat
          ELSE [k |-> "inf", sgn |-> Sign(diff), sq |-> NaN])
    ELSE [k |-> "num", sgn |-> Sign(diff), sq |-> RDiv(RMul(diff, diff), se2)]

\* the denominator with n in the place of n - 1
SatterthwaiteDenBiased(vx, nx, vy, ny) ==
    RAdd(RDiv(RMul(vx, vx), Whole(nx * nx * nx)),
         RDiv(RMul(vy, vy), Whole(ny * ny * ny)))

\* line 153: vx**2 / (nx**2 * (nx - 1)) + vy**2 / (ny**2 * (ny - 1))
SatterthwaiteDen(vx, nx, vy, ny) ==
    RAdd(RDiv(RMul(vx, vx), Whole(nx * nx * (nx - 1))),
         RDiv(RMul(vy, vy), Whole(ny * ny * (ny - 1))))

\* lines 133-156: (t_stat, df, se), se kept as its square
WelchTStat(x, y) ==
    LET nx  == Len(x)
        ny  == Len(y)
        vx  == Var(x)
        vy  == Var(y)
        se2 == RAdd(RDiv(vx, Whole(nx)), RDiv(vy, Whole(ny)))
    IN  [t_stat |-> Ratio(RSub(Mean(x), Mean(y)), se2),
         df     |-> RDiv(RMul(se2, se2), SatterthwaiteDen(vx, nx, vy, ny)),
         se2    |-> se2]

\* a tail probability of Student's t distribution, kept as the term it is
\* computed from
TTail(alt, t_stat, df) == [tail |-> alt, stat |-> t_stat, df |-> df]

NoResult == [st |-> "pending", p |-> NaN, t_stat |-> NaNStat, df |-> NaN]

Failed == [st |-> "error", p |-> NaN, t_stat |-> NaNStat, df |-> NaN]

\* lines 183-193
WelchPValueManualResult(x, y, alt) ==
    LET r == WelchTStat(x, y)
    IN  [st |-> "ok", p |-> TTail(alt, r.t_stat, r.df),
         t_stat |-> r.t_stat, df |-> r.df]

\* st.ttest_ind(a, b, alternative, equal_var = False): the result iterates
\* as the pair (statistic, pvalue); df is an attribute beside it
TtestInd(x, y, alt) ==
    LET r == WelchTStat(x, y)
    IN  [fields |-> <<r.t_stat, TTail(alt, r.t_stat, r.df)>>, df |-> r.df]

\* lines 220-227: the result is unpacked into three names, which raises
\* ValueError unless it iterates as three values
WelchPValueResult(x, y, alt) ==
    LET res == TtestInd(x, y, alt)
    IN  IF Len(res.fields) = 3
        THEN [st |-> "ok", p |-> res.fields[2], t_stat |-> res.fields[1],
              df |-> res.fields[3]]
        ELSE Failed

\* the caller runs welch_p_value
WelchPValue ==
    /\ welch.lib.st = "pending"
    /\ welch' = [welch EXCEPT !.lib = WelchPValueResult(welch.x, welch.y, welch.alt)]
    /\ UNCHANGED <<xs, ys, metric_func, alternative, reps, call, rng, bin, zt>>

\* the caller runs welch_p_value_manual
WelchPValueManual ==
    /\ welch.man.st = "pending"
    /\ welch' = [welch EXCEPT !.man = WelchPValueManualResult(welch.x, welch.y, welch.alt)]
    /\ UNCHANGED <<xs, ys, metric_func, alternative, reps, call, rng, bin, zt>>

InitWelch ==
    /\ NoPerm
    /\ bin = Idle
    /\ \E x \in WelchSamples, y \in WelchSamples, alt \in Alternatives :
          welch = [x |-> x, y |-> y, alt |-> alt,
                   lib |-> NoResult, man |-> NoResult]
    /\ zt = Idle

NextWelch == WelchPValue \/ WelchPValueManual

SpecWelch == InitWelch /\ [][NextWelch]_vars

ValidWelch ==
    /\ Len(welch.x) >= 2 /\ Len(welch.y) >= 2
    /\ ~(Var(welch.x) = <<0, 1>> /\ Var(welch.y) = <<0, 1>>)

\* C7: on valid samples welch_p_value returns a complete (p, t_stat, df)
\* that agrees with the tuple of welch_p_value_manual.
C7_LibraryAgreesWithManual ==
    (ValidWelch /\ welch.lib.st # "pending") =>
        /\ welch.lib.st = "ok"
        /\ welch.man.st # "pending" =>
              /\ welch.lib.p = welch.man.p
              /\ welch.lib.t_stat = welch.man.t_stat
              /\ welch.lib.df = welch.man.df

MinLen == Min(Len(welch.x), Len(welch.y))

\* C8 as stated: on valid samples df is strictly greater than
\* min(n_x, n_y) - 1 and at most n_x + n_y - 2.
C8_DfOpenInterval ==
    (ValidWelch /\ welch.man.st # "pending") =>
        /\ RGt(welch.man.df, Whole(MinLen - 1))
        /\ RLe(welch.man.df, Whole(Len(welch.x) + Len(welch.y) - 2))

\* C8 amended: on valid samples df is at least min(n_x, n_y) - 1 and at
\* most n_x + n_y - 2.
C8_DfClosedInterval ==
    (ValidWelch /\ welch.man.st # "pending") =>
        /\ RGe(welch.man.df, Whole(MinLen - 1))
        /\ RLe(welch.man.df, Whole(Len(welch.x) + Len(welch.y) - 2))

\* exactly one sample has zero variance and df sits on the lower end
C8_Witness ==
    /\ ValidWelch /\ welch.man.st # "pending"
    /\ Var(welch.y) = <<0, 1>> /\ Var(welch.x) # <<0, 1>>
    /\ Len(welch.x) < Len(welch.y)
    /\ welch.man.df = Whole(MinLen - 1)

----------------------------------------------------------------------------
(* z_test.py: ztest_prop_stat and ztest_prop_p_value_manual *)

\* largest trial count of a group
MaxTrials == 4

\* the proportions added instead of subtracted
PropSum(p1, p2) == RAdd(p1, p2)

\* line 39: the numerator p1 - p2
PropDiff(p1, p2) == RSub(p1, p2)

\* lines 29-41; x / 0 on Python integers raises ZeroDivisionError
ZtestPropStat(x1, n1, x2, n2) ==
    IF n1 = 0 \/ n2 = 0 THEN [st |-> "error", z_stat |-> NaNStat]
    ELSE LET p1     == R(x1, n1)
             p2     == R(x2, n2)
             p_pool == R(x1 + x2, n1 + n2)
             se2    == RMul(RMul(p_pool, RSub(Whole(1), p_pool)),
                            RAdd(R(1, n1), R(1, n2)))
         IN  [st |-> "ok", z_stat |-> Ratio(PropDiff(p1, p2), se2)]

\* lines 71-79: Phi(0) = 1/2 exactly, so z = 0 gives 1 (two-sided) or 1/2;
\* any other tail of the normal distribution is kept as the term it is
\* computed from, and its value v is left open (a NaN z gives a NaN p)
NormTail(alt, z) ==
    IF z.k = "num" /\ z.sgn = 0
    THEN [v |-> IF alt = "two-sided" THEN <<1, 1>> ELSE <<1, 2>>,
          tail |-> alt, stat |-> z]
    ELSE [v |-> NaN, tail |-> alt, stat |-> z]

NoZ == [st |-> "pending", z_stat |-> NaNStat]

NoP == [st |-> "pending", z_stat |-> NaNStat,
        p |-> [v |-> NaN, tail |-> "two-sided", stat |-> NaNStat]]

\* lines 68-81
ZtestPropPValueManualResult(x1, n1, x2, n2, alt) ==
    LET r == ZtestPropStat(x1, n1, x2, n2)
    IN  IF r.st = "error" THEN [NoP EXCEPT !.st = "error"]
        ELSE [st |-> "ok", z_stat |-> r.z_stat, p |-> NormTail(alt, r.z_stat)]

\* the caller runs ztest_prop_stat
CallZtestPropStat ==
    /\ zt.stat.st = "pending"
    /\ zt' = [zt EXCEPT !.stat = ZtestPropStat(zt.x1, zt.n1, zt.x2, zt.n2)]
    /\ UNCHANGED <<xs, ys, metric_func, alternative, reps, call, rng, bin, welch>>

\* the caller runs ztest_prop_p_value_manual
CallZtestPropPValueManual ==
    /\ zt.man.st = "pending"
    /\ zt' = [zt EXCEPT !.man =
                 ZtestPropPValueManualResult(zt.x1, zt.n1, zt.x2, zt.n2, zt.alt)]
    /\ UNCHANGED <<xs, ys, metric_func, alternative, reps, call, rng, bin, welch>>

InitZ ==
    /\ NoPerm
    /\ bin = Idle
    /\ welch = Idle
    /\ \E x1 \in 0..MaxTrials, n1 \in 0..MaxTrials,
          x2 \in 0..MaxTrials, n2 \in 0..MaxTrials, alt \in Alternatives :
          zt = [x1 |-> x1, n1 |-> n1, x2 |-> x2, n2 |-> n2, alt |-> alt,
                stat |-> NoZ, man |-> NoP]

NextZ == CallZtestPropStat \/ CallZtestPropPValueManual

SpecZ == InitZ /\ [][NextZ]_vars

EqualProportions ==
    /\ zt.n1 >= 1 /\ zt.n2 >= 1
    /\ zt.x1 <= zt.n1 /\ zt.x2 <= zt.n2
    /\ zt.x1 * zt.n2 = zt.x2 * zt.n1

ZeroStat == [k |-> "num", sgn |-> 0, sq |-> <<0, 1>>]

ZeroZAndPOne ==
    /\ zt.stat.st # "pending" => (zt.stat.st = "ok" /\ zt.stat.z_stat = ZeroStat)
    /\ (zt.man.st # "pending" /\ zt.alt = "two-sided") =>
          (zt.man.st = "ok" /\ zt.man.z_stat = ZeroStat /\ zt.man.p.v = <<1, 1>>)

Interior == 0 < zt.x1 + zt.x2 /\ zt.x1 + zt.x2 < zt.n1 + zt.n2

====
